---- MODULE Spec2Model ----
(***************************************************************************)
(* The two optimisation notebooks of applied-optimization, as one state    *)
(* machine: the knapsack notebook and the assignment notebook.  A run is    *)
(* one notebook (nb), executed either cell by cell (mode = "steps") or as  *)
(* its consolidated "All together" cell (mode = "together").               *)
(*                                                                         *)
(* Numbers.  The knapsack data are decimals with two digits; they are kept *)
(* as integers in hundredths (5.94 is 594, b = 26.66 is 2666).  The costs  *)
(* of the seeded assignment instance are the coefficients the notebook     *)
(* prints for its objective, kept as integers in millionths (rounded half  *)
(* to even).                                                               *)
(*                                                                         *)
(* The solver.  model.optimize() is a call into an external library.  It   *)
(* is modelled by its contract on the model the notebook built: it returns *)
(* status 2 (optimal) with one of the 0/1 points that satisfy every        *)
(* constraint added and that are best for the objective set, or status 3   *)
(* (infeasible) when no 0/1 point satisfies the constraints.  The recorded *)
(* runs report MIPGap 0, and the contract is the exact one.                *)
(***************************************************************************)
EXTENDS Integers, FiniteSets, Sequences, TLC

VARIABLES
    nb,          \* which notebook runs: "knapsack" or "assignment"
    mode,        \* "steps": cell by cell; "together": the consolidated cell
    pc,          \* the statement the run is at
    I, v, w, b,  \* knapsack data: items, values, weights, capacity
    M, N, c,     \* assignment data: resources, tasks, costs
    X,           \* keys of the tupledict returned by model.addVars
    objective,   \* the LinExpr handed to model.setObjective
    sense,       \* "none", "max" (GRB.MAXIMIZE) or "min" (GRB.MINIMIZE)
    constrs,     \* the constraints added, in the order of the addConstr calls
    pending,     \* TRUE while additions await a model update
    expr,        \* the LinExpr under construction (total_value, total_cost, i_sum, j_sum)
    todo,        \* what the running for loop has still to visit, in iteration order
    Status,      \* 0 before the solve, then the solver's status code
    x,           \* the .x attribute of every variable after an optimal solve
    ObjVal,      \* model.ObjVal
    out,         \* the lines printed by the print loop
    solveCalls,  \* number of model.optimize() calls made
    rng,         \* np.random's generator: the seed it last got, values drawn since
    earlier      \* what the earlier runs in this kernel left, oldest first

vars == <<nb, mode, pc, I, v, w, b, M, N, c, X, objective, sense, constrs,
          pending, expr, todo, Status, x, ObjVal, out, solveCalls, rng, earlier>>

data == <<I, v, w, b, M, N, c>>
gurobiModel == <<X, objective, sense, constrs, pending>>
solution == <<Status, x, ObjVal>>

-----------------------------------------------------------------------------
(* Bounds of the instances drawn for the claims about every instance.      *)

MaxItems == 2
MaxValue == 2
MaxWeight == 2
MaxCapacity == 3
MaxSize == 2
MaxTotalCost == 4
\* Largest number of runs of a notebook in one kernel.
MaxRuns == 2

-----------------------------------------------------------------------------
(* Helpers.                                                                *)

Min(S) == CHOOSE m \in S : \A k \in S : m <= k
Max(S) == CHOOSE m \in S : \A k \in S : m >= k

RECURSIVE Ascending(_)
\* Iteration order of a Python set of small non-negative ints: ascending.
Ascending(S) == IF S = {} THEN << >>
                ELSE CHOOSE s \in {<<m>> \o Ascending(S \ {m}) : m \in {Min(S)}} : TRUE

RECURSIVE Sum(_, _)
Sum(f, S) == IF S = {} THEN 0
             ELSE LET k == CHOOSE k \in S : TRUE IN f[k] + Sum(f, S \ {k})

EmptyExpr == << >>

\* LinExpr.add(coef * var): a term is appended; terms of one variable add up.
\* (The arguments are bound by a quantifier over one-element sets, so that
\* each is computed once and not once for every term of the expression.)
AddTerm(e, key, coef) ==
    CHOOSE sum \in
        {IF kk \in DOMAIN ee
         THEN [ee EXCEPT ![kk] = @ + cc]
         ELSE [k \in DOMAIN ee \cup {kk} |-> IF k = kk THEN cc ELSE ee[k]] @@ << >> :
            ee \in {e}, kk \in {key}, cc \in {coef}} : TRUE

RECURSIVE SumProd(_, _, _)
SumProd(e, pt, S) ==
    IF S = {} THEN 0
    ELSE CHOOSE s \in {e[k] * pt[k] + SumProd(e, pt, S \ {k}) :
                          k \in {CHOOSE kk \in S : TRUE}} : TRUE

\* Value of a linear expression at a point (a value for every variable): the
\* sum of its terms, those of the variables at 0 being 0.
Eval(e, pt) == SumProd(e, pt, {k \in DOMAIN e : pt[k] # 0})


-----------------------------------------------------------------------------
(* The data of the notebooks.                                              *)

ProvidedI == 1..10
ProvidedV == <<594, 744, 642, 590, 481, 681, 494, 903, 967, 445>>
\* Mutant: the weight of item 10 is left out of w.
MutProvidedW == <<813, 576, 611, 933, 164, 178, 118, 849, 800>>

ProvidedW == <<813, 576, 611, 933, 164, 178, 118, 849, 800, 883>>
ProvidedB == 2666

ProvidedKnapsack == [I |-> ProvidedI, v |-> ProvidedV, w |-> ProvidedW, b |-> ProvidedB]

ProvidedSIZE == 10

\* The first 100 values of np.random.uniform(low=0.0, high=10.0) after
\* np.random.seed(0), in millionths, as the notebook prints them.
SeededDraws ==
    << 5488135, 7151894, 6027634, 5448832, 4236548, 6458941, 4375872, 8917730, 9636628, 3834415,
       7917250, 5288949, 5680446, 9255966, 710361, 871293, 202184, 8326198, 7781568, 8700121,
       9786183, 7991586, 4614794, 7805292, 1182744, 6399210, 1433533, 9446689, 5218483, 4146619,
       2645556, 7742337, 4561503, 5684339, 187898, 6176355, 6120957, 6169340, 9437481, 6818203,
       3595079, 4370320, 6976312, 602255, 6667667, 6706379, 2103826, 1289263, 3154284, 3637108,
       5701968, 4386015, 9883738, 1020448, 2088768, 1613095, 6531083, 2532916, 4663108, 2444256,
       1589696, 1103751, 6563296, 1381830, 1965824, 3687252, 8209932, 971013, 8379449, 960984,
       9764595, 4686512, 9767611, 6048455, 7392636, 391878, 2828070, 1201966, 2961402, 1187277,
       3179832, 4142630, 641475, 6924721, 5666015, 2653895, 5232481, 939405, 5759465, 9292962,
       3185690, 6674104, 1317979, 7163272, 2894061, 1831914, 5865129, 201075, 8289400, 46955 >>

\* Mutant: the first component varies fastest, so the draws fill c by columns.
MutProductSwapped(A, B) ==
    LET sa == Ascending(A)
        sb == Ascending(B)
    IN  [k \in 1..(Len(sa) * Len(sb)) |->
            <<sa[((k - 1) % Len(sa)) + 1], sb[((k - 1) \div Len(sa)) + 1]>>]

\* Mutant: the last pair is missing.
MutProductShort(A, B) ==
    LET sa == Ascending(A)
        sb == Ascending(B)
    IN  [k \in 1..(Len(sa) * Len(sb) - 1) |->
            <<sa[((k - 1) \div Len(sb)) + 1], sb[((k - 1) % Len(sb)) + 1]>>]

\* itertools.product(A, B): the pairs, the first component varying slowest.
Product(A, B) ==
    LET sa == Ascending(A)
        sb == Ascending(B)
    IN  [k \in 1..(Len(sa) * Len(sb)) |->
            <<sa[((k - 1) \div Len(sb)) + 1], sb[((k - 1) % Len(sb)) + 1]>>]

\* {(i, j): draw for i, j in itertools.product(A, B)}: the k-th pair gets the
\* k-th draw.
CostDict(A, B, draws) ==
    CHOOSE dict \in
        {[p \in {pairs[k] : k \in DOMAIN pairs} |->
             draws[CHOOSE k \in DOMAIN pairs : pairs[k] = p]] @@ << >> :
            pairs \in {Product(A, B) @@ << >>}} : TRUE

ProvidedAssignment ==
    [M |-> 1..ProvidedSIZE, N |-> 1..ProvidedSIZE,
     c |-> CostDict(1..ProvidedSIZE, 1..ProvidedSIZE, SeededDraws)]

\* Instances for the claims about every instance: small ones, and the
\* notebook's own knapsack instance.
AnyKnapsack ==
    {ProvidedKnapsack} \cup
    UNION {[I : {1..n}, v : [1..n -> 1..MaxValue], w : [1..n -> 1..MaxWeight],
            b : 0..MaxCapacity] : n \in 1..MaxItems}

RECURSIVE Draws(_, _)
\* The sequences of len non-negative costs of total at most total.
Draws(len, total) ==
    IF len = 0 THEN {<< >>}
    ELSE UNION {{<<a>> \o d : d \in Draws(len - 1, total - a)} : a \in 0..total}

AnyAssignment ==
    UNION {{[M |-> 1..n, N |-> 1..n, c |-> CostDict(1..n, 1..n, d)] :
               d \in Draws(n * n, MaxTotalCost)} : n \in 1..MaxSize}

\* The generator of a kernel that has just started: numpy seeds it from the
\* operating system's entropy, written as seed -1 (np.random.seed takes no
\* negative seed).
FreshGenerator == [seed |-> -1, pos |-> 0]

\* Mutant: the call leaves the generator as it is.
MutSeedCall(r, s) == r

\* np.random.seed(s): the generator restarts the stream of seed s.
SeedCall(r, s) == [seed |-> s, pos |-> 0]

\* The generator after n more draws.
Drawn(r, n) == [r EXCEPT !.pos = @ + n]

\* The possible results of n successive np.random.uniform(low=0.0, high=10.0)
\* calls on generator r, in millionths.  The stream of seed 0 is known from
\* its start as far as the notebook records it; any other draws are values
\* the notebook does not determine, here two representatives.
Uniform(r, n) ==
    IF r.seed = 0 /\ r.pos + n <= Len(SeededDraws)
    THEN {SubSeq(SeededDraws, r.pos + 1, r.pos + n)}
    ELSE {[k \in 1..n |-> SeededDraws[((k + r.pos + shift - 1) % Len(SeededDraws)) + 1]] :
             shift \in 1..2}

-----------------------------------------------------------------------------
(* The solver's contract.                                                  *)

OPTIMAL == 2
INFEASIBLE == 3

\* Largest number of variables whose 0/1 points are enumerated one by one.
MaxEnumVars == 10

Satisfies(con, pt) ==
    IF con.rel = "<=" THEN Eval(con.expr, pt) <= con.rhs
                      ELSE Eval(con.expr, pt) = con.rhs

Feasible(cons, pt) == \A k \in 1..Len(cons) : Satisfies(cons[k], pt)

Best(sns, vals) == IF sns = "max" THEN Max(vals) ELSE Min(vals)

RECURSIVE Fill(_, _, _, _, _, _)
\* T[S], for a set S of k columns: the best total of obj over the one-to-one
\* maps from the first k rows onto S.  Filled in by increasing k.
\* (Each table is bound by a quantifier over a one-element set, so that it is
\* computed once and not once for every entry that reads it.)
Fill(obj, sns, rows, C, k, T) ==
    IF k > Len(rows) THEN T
    ELSE CHOOSE r \in
             {Fill(obj, sns, rows, C, k + 1, T2) :
                 T2 \in {[S \in SUBSET C |->
                            IF Cardinality(S) = k
                            THEN Best(sns, {obj[<<rows[k], j>>] + T[S \ {j}] : j \in S})
                            ELSE T[S]] @@ << >>}} : TRUE

BestTable(obj, sns, rows, C) ==
    CHOOSE r \in {Fill(obj, sns, rows, C, 1, T0) :
                     T0 \in {[S \in SUBSET C |-> 0] @@ << >>}} : TRUE

RECURSIVE BestMaps(_, _, _, _, _)
\* The one-to-one maps from the first k rows onto S that attain T[S], as sets
\* of pairs <<row, column>>.
BestMaps(obj, rows, T, k, S) ==
    IF k = 0 THEN {{}}
    ELSE UNION {{m \cup {<<rows[k], j>>} : m \in BestMaps(obj, rows, T, k - 1, S \ {j})} :
                   j \in {jj \in S : obj[<<rows[k], jj>>] + T[S \ {jj}] = T[S]}}

\* The 0/1 points the solver may return: feasible for every constraint and
\* best for the objective.  Up to MaxEnumVars variables every 0/1 point is
\* tried.  A larger model (the 10 x 10 assignment model, 2^100 points) is
\* searched over its permutation matrices only, which is the feasible region
\* of the assignment constraints (C4_FeasibleIsMatching); each point found is
\* still tested against the constraints as added.
\* The points of F that are best for the objective.
BestOf(F, obj, sns) ==
    UNION {IF DOMAIN vals = {} THEN {}
           ELSE UNION {{pt \in DOMAIN vals : vals[pt] = best} :
                          best \in {Best(sns, {vals[pt] : pt \in DOMAIN vals})}} :
              vals \in {[pt \in F |-> Eval(obj, pt)] @@ << >>}}

OptimalPoints(keys, obj, sns, cons) ==
    IF Cardinality(keys) <= MaxEnumVars
    THEN BestOf({pt \in [keys -> {0, 1}] : Feasible(cons, pt)}, obj, sns)
    ELSE UNION {{pt \in {[k \in keys |-> IF k \in m THEN 1 ELSE 0] :
                             m \in BestMaps(obj, rows, T, Len(rows), C)} :
                    Feasible(cons, pt)} :
                   rows \in {Ascending({k[1] : k \in keys})},
                   C \in {{k[2] : k \in keys}},
                   T \in {BestTable(obj, sns, Ascending({k[1] : k \in keys}),
                                    {k[2] : k \in keys})}}

-----------------------------------------------------------------------------
(* The steps of a run.                                                     *)

Init ==
    /\ nb \in {"knapsack", "assignment"}
    /\ mode \in {"steps", "together"}
    /\ pc = "data"
    /\ I = {} /\ v = << >> /\ w = << >> /\ b = 0
    /\ M = {} /\ N = {} /\ c = << >>
    /\ X = {} /\ objective = EmptyExpr /\ sense = "none" /\ constrs = << >>
    /\ pending = FALSE
    /\ expr = EmptyExpr /\ todo = << >>
    /\ Status = 0 /\ x = << >> /\ ObjVal = 0
    /\ out = << >>
    /\ solveCalls = 0
    /\ rng = FreshGenerator
    /\ earlier = << >>

SetKnapsackData(inst) ==
    /\ I' = inst.I /\ v' = inst.v /\ w' = inst.w /\ b' = inst.b
    /\ UNCHANGED <<M, N, c, rng>>

\* The assignment data cell seeds the generator with 0 and draws one cost per
\* pair.
SetAssignmentData(inst) ==
    /\ M' = inst.M /\ N' = inst.N /\ c' = inst.c
    /\ rng' = Drawn(SeedCall(rng, 0), Cardinality(inst.M) * Cardinality(inst.N))
    /\ UNCHANGED <<I, v, w, b>>

\* SIZE = 10; M, N = 1..SIZE; np.random.seed(0); c = {(i, j): uniform draw}:
\* the costs are the draws of the generator as the seed call leaves it.
SeededAssignmentData ==
    \E seeded \in {SeedCall(rng, 0)} :
        \E draws \in Uniform(seeded, ProvidedSIZE * ProvidedSIZE) :
            /\ M' = 1..ProvidedSIZE /\ N' = 1..ProvidedSIZE
            /\ c' = CostDict(1..ProvidedSIZE, 1..ProvidedSIZE, draws)
            /\ rng' = Drawn(seeded, ProvidedSIZE * ProvidedSIZE)
            /\ UNCHANGED <<I, v, w, b>>

\* The data cell, on the notebook's own data.
ProvidedData ==
    /\ pc = "data"
    /\ IF nb = "knapsack" THEN SetKnapsackData(ProvidedKnapsack)
                          ELSE SeededAssignmentData
    /\ pc' = "model"
    /\ UNCHANGED <<nb, mode, earlier, gurobiModel, expr, todo, solution, out, solveCalls>>

\* The data cell, on any instance of the shape the notebook generates.
AnyData ==
    /\ pc = "data"
    /\ IF nb = "knapsack" THEN \E inst \in AnyKnapsack : SetKnapsackData(inst)
                          ELSE \E inst \in AnyAssignment : SetAssignmentData(inst)
    /\ pc' = "model"
    /\ UNCHANGED <<nb, mode, earlier, gurobiModel, expr, todo, solution, out, solveCalls>>

\* model = gurobipy.Model(...)
NewModel ==
    /\ pc = "model"
    /\ X' = {} /\ objective' = EmptyExpr /\ sense' = "none" /\ constrs' = << >>
    /\ pending' = FALSE
    /\ Status' = 0 /\ x' = << >> /\ ObjVal' = 0 /\ solveCalls' = 0
    /\ pc' = "vars"
    /\ UNCHANGED <<nb, mode, rng, earlier, data, expr, todo, out>>

\* Mutant: the knapsack variables are created over range(0, 11), item 0 too.
MutVarKeys == IF nb = "knapsack" THEN I \cup {0} ELSE N \X M

\* Knapsack: addVars(I): one key per item.  Assignment: addVars(N, M): one
\* key per pair of N x M.
VarKeys == IF nb = "knapsack" THEN I ELSE N \X M

\* Mutant: the assignment objective loops over range(1, SIZE + 2).
MutObjectiveLoop ==
    IF nb = "knapsack" THEN Ascending(I) ELSE Ascending(N \cup {Cardinality(N) + 1})

\* What the objective loop iterates over: for i in I, resp. for i in N.
ObjectiveLoop == IF nb = "knapsack" THEN Ascending(I) ELSE Ascending(N)

\* X = model.addVars(..., vtype=GRB.BINARY), then total_value = LinExpr()
\* resp. total_cost = LinExpr() and the start of the objective loop.
AddVars ==
    /\ pc = "vars"
    /\ X' = VarKeys
    /\ pending' = TRUE
    /\ expr' = EmptyExpr
    /\ todo' = ObjectiveLoop
    /\ pc' = "objective"
    /\ UNCHANGED <<nb, mode, rng, earlier, data, objective, sense, constrs, solution, out, solveCalls>>

\* An exception (KeyError on a missing key, AttributeError on the .x or
\* ObjVal of a model without a solution) ends the run where it is raised.
Raise ==
    /\ pc' = "error"
    /\ UNCHANGED <<nb, mode, rng, earlier, data, gurobiModel, expr, todo, solution, out, solveCalls>>

RECURSIVE AddTerms(_, _, _)
\* e.add(coef[k] * X[k]) for the keys of ks, in order.
AddTerms(e, ks, coef) ==
    IF ks = << >> THEN e
    ELSE CHOOSE r \in {AddTerms(e2, rest, coef) :
                          e2 \in {AddTerm(e, Head(ks), coef[Head(ks)])},
                          rest \in {Tail(ks)}} : TRUE

\* Mutant: the objective is built from the weights.
MutKnapsackObjectiveTerm ==
    /\ pc = "objective" /\ nb = "knapsack" /\ todo # << >>
    /\ LET i == Head(todo)
       IN  IF i \in DOMAIN w /\ i \in X
           THEN /\ expr' = AddTerm(expr, i, w[i])
                /\ todo' = Tail(todo)
                /\ UNCHANGED <<nb, mode, rng, earlier, pc, data, gurobiModel, solution, out, solveCalls>>
           ELSE Raise

\* for i in I: total_value.add(v[i]*X[i])
KnapsackObjectiveTerm ==
    /\ pc = "objective" /\ nb = "knapsack" /\ todo # << >>
    /\ LET i == Head(todo)
       IN  IF i \in DOMAIN v /\ i \in X
           THEN /\ expr' = AddTerm(expr, i, v[i])
                /\ todo' = Tail(todo)
                /\ UNCHANGED <<nb, mode, rng, earlier, pc, data, gurobiModel, solution, out, solveCalls>>
           ELSE Raise

\* The keys the inner loop of the objective visits for the outer value i:
\* for i in N: for j in M: ... c[i, j]*X[i, j]
ObjectiveRowKeys(i) == [k \in 1..Cardinality(M) |-> <<i, Ascending(M)[k]>>]

\* One pass of the outer objective loop of the assignment notebook.
AssignmentObjectiveRow ==
    /\ pc = "objective" /\ nb = "assignment" /\ todo # << >>
    /\ LET i == Head(todo)
           ks == ObjectiveRowKeys(i)
       IN  IF \A k \in DOMAIN ks : ks[k] \in DOMAIN c /\ ks[k] \in X
           THEN /\ expr' = AddTerms(expr, ks, c)
                /\ todo' = Tail(todo)
                /\ UNCHANGED <<nb, mode, rng, earlier, pc, data, gurobiModel, solution, out, solveCalls>>
           ELSE Raise

\* Mutants: one sense for both notebooks.
MutSenseMin == "min"
MutSenseMax == "max"

ObjectiveSense == IF nb = "knapsack" THEN "max" ELSE "min"

\* model.setObjective(total, sense=...), then the start of the first
\* constraint loop: i_sum = LinExpr(); for i in I (knapsack), for j in N
\* (assignment).
SetObjective ==
    /\ pc = "objective" /\ todo = << >>
    /\ objective' = expr
    /\ sense' = ObjectiveSense
    /\ pending' = TRUE
    /\ expr' = EmptyExpr
    /\ IF nb = "knapsack"
       THEN todo' = Ascending(I) /\ pc' = "constr"
       ELSE todo' = Ascending(N) /\ pc' = "constr_task"
    /\ UNCHANGED <<nb, mode, rng, earlier, data, X, constrs, solution, out, solveCalls>>

\* Mutant: the consolidated cell prints without solving.
MutAfterBuild == IF mode = "steps" THEN "update" ELSE "print"

\* Where the run goes once the model is built: the cell-by-cell run updates
\* and inspects the model first, the consolidated cell solves at once.
AfterBuild == IF mode = "steps" THEN "update" ELSE "optimize"

\* Mutant: the loop takes each weight out of w (w.pop(i)).
MutKnapsackConstrTerm ==
    /\ pc = "constr" /\ todo # << >>
    /\ LET i == Head(todo)
       IN  IF i \in DOMAIN w /\ i \in X
           THEN /\ expr' = AddTerm(expr, i, w[i])
                /\ w' = [k \in DOMAIN w \ {i} |-> w[k]]
                /\ todo' = Tail(todo)
                /\ UNCHANGED <<nb, mode, rng, earlier, pc, I, v, b, M, N, c, gurobiModel, solution, out, solveCalls>>
           ELSE Raise

\* for i in I: i_sum.add(w[i]*X[i])
KnapsackConstrTerm ==
    /\ pc = "constr" /\ todo # << >>
    /\ LET i == Head(todo)
       IN  IF i \in DOMAIN w /\ i \in X
           THEN /\ expr' = AddTerm(expr, i, w[i])
                /\ todo' = Tail(todo)
                /\ UNCHANGED <<nb, mode, rng, earlier, pc, data, gurobiModel, solution, out, solveCalls>>
           ELSE Raise

\* Mutant: the right-hand side is one hundredth too large, i_sum <= b + 0.01.
MutCapacityConstr(e) ==
    [name |-> <<"capacity_constraint">>, expr |-> e, rel |-> "<=", rhs |-> b + 1]

\* Mutant: the capacity must be used up, i_sum == b.
MutCapacityConstrEq(e) ==
    [name |-> <<"capacity_constraint">>, expr |-> e, rel |-> "=", rhs |-> b]

\* The constraint i_sum <= b.
CapacityConstr(e) ==
    [name |-> <<"capacity_constraint">>, expr |-> e, rel |-> "<=", rhs |-> b]

\* model.addConstr(i_sum <= b, name='capacity_constraint')
KnapsackAddConstr ==
    /\ pc = "constr" /\ todo = << >>
    /\ constrs' = Append(constrs, CapacityConstr(expr))
    /\ pending' = TRUE
    /\ pc' = AfterBuild
    /\ UNCHANGED <<nb, mode, rng, earlier, data, X, objective, sense, expr, todo, solution, out, solveCalls>>

One == [k \in X |-> 1]

\* Mutant: the indices are swapped, X[j, i].
MutTaskKeys(j) == [k \in 1..Cardinality(M) |-> <<j, Ascending(M)[k]>>]

\* for i in M: i_sum.add(X[i, j])
TaskKeys(j) == [k \in 1..Cardinality(M) |-> <<Ascending(M)[k], j>>]

\* Mutant: the resource loop adds X[j, i].
MutResourceKeys(i) == [k \in 1..Cardinality(N) |-> <<Ascending(N)[k], i>>]

\* for j in N: j_sum.add(X[i, j])
ResourceKeys(i) == [k \in 1..Cardinality(N) |-> <<i, Ascending(N)[k]>>]

\* The constraint sum == 1 over the keys ks.
OneConstr(kind, index, ks) ==
    [name |-> <<kind, index>>, expr |-> AddTerms(EmptyExpr, ks, One), rel |-> "=", rhs |-> 1]

\* One pass of: for j in N: i_sum = LinExpr(); for i in M: i_sum.add(X[i, j]);
\* model.addConstr(i_sum == 1, name=f'task_{j}_assigned_to_one_resource').
\* After the last pass the loop over the resources starts.
AssignmentTaskConstr ==
    /\ pc = "constr_task" /\ todo # << >>
    /\ LET j == Head(todo)
           ks == TaskKeys(j)
       IN  IF \A k \in DOMAIN ks : ks[k] \in X
           THEN /\ constrs' = Append(constrs, OneConstr("task", j, ks))
                /\ pending' = TRUE
                /\ IF Tail(todo) = << >>
                   THEN todo' = Ascending(M) /\ pc' = "constr_resource"
                   ELSE todo' = Tail(todo) /\ pc' = pc
                /\ UNCHANGED <<nb, mode, rng, earlier, data, X, objective, sense, expr, solution, out, solveCalls>>
           ELSE Raise

\* One pass of: for i in M: j_sum = LinExpr(); for j in N: j_sum.add(X[i, j]);
\* model.addConstr(j_sum == 1, name=f'resource_{i}_assigned_to_one_task').
AssignmentResourceConstr ==
    /\ pc = "constr_resource" /\ todo # << >>
    /\ LET i == Head(todo)
           ks == ResourceKeys(i)
       IN  IF \A k \in DOMAIN ks : ks[k] \in X
           THEN /\ constrs' = Append(constrs, OneConstr("resource", i, ks))
                /\ pending' = TRUE
                /\ todo' = Tail(todo)
                /\ pc' = IF Tail(todo) = << >> THEN AfterBuild ELSE pc
                /\ UNCHANGED <<nb, mode, rng, earlier, data, X, objective, sense, expr, solution, out, solveCalls>>
           ELSE Raise

\* model.update(); model
Update ==
    /\ pc = "update"
    /\ pending' = FALSE
    /\ pc' = "getConstrs"
    /\ UNCHANGED <<nb, mode, rng, earlier, data, X, objective, sense, constrs, expr, todo, solution, out, solveCalls>>

\* model.getConstrs()
GetConstrs ==
    /\ pc = "getConstrs"
    /\ pc' = "getObjective"
    /\ UNCHANGED <<nb, mode, rng, earlier, data, gurobiModel, expr, todo, solution, out, solveCalls>>

\* model.getObjective()
GetObjective ==
    /\ pc = "getObjective"
    /\ pc' = "optimize"
    /\ UNCHANGED <<nb, mode, rng, earlier, data, gurobiModel, expr, todo, solution, out, solveCalls>>

\* Mutant: a guard on the status, if model.Status != GRB.OPTIMAL the run stops
\* without printing.
MutAfterSolveGuarded ==
    IF Status' # OPTIMAL THEN "done"
    ELSE IF mode = "steps" THEN "getJSONSolution" ELSE "print"

\* Mutant: the consolidated cell ends with the solve and prints nothing.
MutAfterSolveNoPrint == IF mode = "steps" THEN "getJSONSolution" ELSE "done"

\* Where the run goes after the solve: the cell-by-cell run reads the
\* solution first, the consolidated cell prints at once.
AfterSolve == IF mode = "steps" THEN "getJSONSolution" ELSE "print"

\* Mutant: the objective value is not stored with the solution.
MutAnswer(opt) ==
    \E points \in {opt} :
        IF points = {}
        THEN Status' = INFEASIBLE /\ x' = << >> /\ ObjVal' = 0
        ELSE \E pt \in points :
                 Status' = OPTIMAL /\ x' = pt /\ ObjVal' = ObjVal

\* model.optimize(): pending additions are applied, then the solver answers.
\* What the solver hands back, opt being the points it may return.
Answer(opt) ==
    \E points \in {opt} :
        IF points = {}
        THEN Status' = INFEASIBLE /\ x' = << >> /\ ObjVal' = 0
        ELSE \E pt \in points :
                 Status' = OPTIMAL /\ x' = pt /\ ObjVal' = Eval(objective, pt)

Optimize ==
    /\ pc = "optimize"
    /\ Answer(OptimalPoints(X, objective, sense, constrs))
    /\ pending' = FALSE
    /\ solveCalls' = solveCalls + 1
    /\ pc' = AfterSolve
    /\ UNCHANGED <<nb, mode, rng, earlier, data, X, objective, sense, constrs, expr, todo, out>>

\* json.loads(model.getJSONSolution())
GetJSONSolution ==
    /\ pc = "getJSONSolution"
    /\ pc' = "ObjVal"
    /\ UNCHANGED <<nb, mode, rng, earlier, data, gurobiModel, expr, todo, solution, out, solveCalls>>

\* model.ObjVal
ReadObjVal ==
    /\ pc = "ObjVal"
    /\ IF Status = OPTIMAL
       THEN /\ pc' = "x"
            /\ UNCHANGED <<nb, mode, rng, earlier, data, gurobiModel, expr, todo, solution, out, solveCalls>>
       ELSE Raise

\* Mutant: the cell reads X[0].x, resp. X[0, 0].x.
MutFirstKey == IF nb = "knapsack" THEN 0 ELSE <<0, 0>>

\* The key the cell-by-cell run reads: X[1].x, resp. X[1, 1].x
FirstKey == IF nb = "knapsack" THEN 1 ELSE <<1, 1>>

ReadX ==
    /\ pc = "x"
    /\ IF Status = OPTIMAL /\ FirstKey \in X
       THEN /\ pc' = "print"
            /\ UNCHANGED <<nb, mode, rng, earlier, data, gurobiModel, expr, todo, solution, out, solveCalls>>
       ELSE Raise

\* What the print loop iterates over: for i in I, resp. for i in M.
PrintLoop == IF nb = "knapsack" THEN Ascending(I) ELSE Ascending(M)

\* print('Optimal Assignments'); print('-'*20)
PrintHeader ==
    /\ pc = "print"
    /\ out' = out \o << <<"Optimal Assignments">>, <<"--------------------">> >>
    /\ todo' = PrintLoop
    /\ pc' = IF PrintLoop = << >> THEN "done" ELSE "print_loop"
    /\ UNCHANGED <<nb, mode, rng, earlier, data, gurobiModel, expr, solution, solveCalls>>

\* Mutant: the threshold is 1, X[...].x > 1.
MutSelected(val) == val * 10 > 10

\* The test X[...].x > 0.1 on a value that is 0 or 1.
Selected(val) == val * 10 > 1

\* for i in I: if X[i].x > 0.1: print(f' - Item {i} included')
KnapsackPrintItem ==
    /\ pc = "print_loop" /\ nb = "knapsack" /\ todo # << >>
    /\ LET i == Head(todo)
       IN  IF Status = OPTIMAL /\ i \in X
           THEN /\ out' = IF Selected(x[i]) THEN Append(out, <<"Item", i>>) ELSE out
                /\ todo' = Tail(todo)
                /\ pc' = IF Tail(todo) = << >> THEN "done" ELSE pc
                /\ UNCHANGED <<nb, mode, rng, earlier, data, gurobiModel, expr, solution, solveCalls>>
           ELSE Raise

\* Mutant: the break is outside the if, so the inner loop stops after its first
\* task whatever X[i, j].x is.
MutVisited(i, js) == IF js = << >> THEN << >> ELSE <<Head(js)>>

\* The tasks the inner print loop visits for resource i before it stops: up
\* to and including the first j with X[i, j].x > 0.1 (the break).
RECURSIVE Visited(_, _)
Visited(i, js) ==
    IF js = << >> THEN << >>
    ELSE IF <<i, Head(js)>> \in X /\ Selected(x[<<i, Head(js)>>])
         THEN <<Head(js)>>
         ELSE <<Head(js)>> \o Visited(i, Tail(js))

\* One pass of: for i in M: for j in N: if X[i, j].x > 0.1:
\* print(f' - Resource {i} -> Task {j}'); break
AssignmentPrintRow ==
    /\ pc = "print_loop" /\ nb = "assignment" /\ todo # << >>
    /\ LET i == Head(todo)
           js == Visited(i, Ascending(N))
           last == js[Len(js)]
       IN  IF Status = OPTIMAL /\ \A k \in DOMAIN js : <<i, js[k]>> \in X
           THEN /\ out' = IF js # << >> /\ Selected(x[<<i, last>>])
                          THEN Append(out, <<"Resource", i, last>>)
                          ELSE out
                /\ todo' = Tail(todo)
                /\ pc' = IF Tail(todo) = << >> THEN "done" ELSE pc
                /\ UNCHANGED <<nb, mode, rng, earlier, data, gurobiModel, expr, solution, solveCalls>>
           ELSE Raise

Build ==
    \/ NewModel \/ AddVars
    \/ KnapsackObjectiveTerm \/ AssignmentObjectiveRow \/ SetObjective
    \/ KnapsackConstrTerm \/ KnapsackAddConstr
    \/ AssignmentTaskConstr \/ AssignmentResourceConstr

Inspect == Update \/ GetConstrs \/ GetObjective

Read == GetJSONSolution \/ ReadObjVal \/ ReadX

PrintStep == PrintHeader \/ KnapsackPrintItem \/ AssignmentPrintRow

\* A run on the notebook's own data.
Next == ProvidedData \/ Build \/ Inspect \/ Optimize \/ Read \/ PrintStep

Spec == Init /\ [][Next]_vars

\* A run on any instance.
NextAny == AnyData \/ Build \/ Inspect \/ Optimize \/ Read \/ PrintStep

SpecAny == Init /\ [][NextAny]_vars

\* A run on the notebook's own data that is not abandoned: the kernel runs the
\* next statement as long as there is one.
SpecFair == Spec /\ WF_vars(Next)

\* Knapsack data cells edited by hand: a weight may be 0 and the capacity may
\* be negative (b = -0.01).
EditedKnapsack ==
    UNION {[I : {1..n}, v : [1..n -> 1..MaxValue], w : [1..n -> 0..MaxWeight],
            b : {-1} \cup 0..MaxCapacity] : n \in 1..MaxItems}

\* Assignment data cells edited by hand: M = range(1, m + 1) and
\* N = range(1, n + 1) need not have the same size.
EditedAssignment ==
    UNION {{[M |-> 1..m, N |-> 1..n, c |-> CostDict(1..m, 1..n, d)] :
               d \in Draws(m * n, MaxTotalCost)} : m \in 1..MaxSize, n \in 1..MaxSize}

\* The data cell after an edit of its literals.
EditedData ==
    /\ pc = "data"
    /\ IF nb = "knapsack" THEN \E inst \in EditedKnapsack : SetKnapsackData(inst)
                          ELSE \E inst \in EditedAssignment : SetAssignmentData(inst)
    /\ pc' = "model"
    /\ UNCHANGED <<nb, mode, earlier, gurobiModel, expr, todo, solution, out, solveCalls>>

\* A run on edited data.
NextEdited == EditedData \/ Build \/ Inspect \/ Optimize \/ Read \/ PrintStep

SpecEdited == Init /\ [][NextEdited]_vars

\* The notebook is run again in the same kernel, cell by cell or by its
\* consolidated cell: the names keep their values until the cells rebind
\* them, the generator keeps its state, and the print cell's output starts
\* empty.  What the finished run left is kept for comparison.
RunAgain ==
    /\ pc = "done"
    /\ Len(earlier) + 1 < MaxRuns
    /\ earlier' = Append(earlier, [mode |-> mode, c |-> c, ObjVal |-> ObjVal, out |-> out])
    /\ \E m \in {"steps", "together"} : mode' = m
    /\ pc' = "data"
    /\ out' = << >>
    /\ UNCHANGED <<nb, rng, data, gurobiModel, expr, todo, solution, solveCalls>>

\* Runs of a notebook on its own data, one after the other in one kernel.
NextRerun == Next \/ RunAgain

SpecRerun == Init /\ [][NextRerun]_vars

-----------------------------------------------------------------------------
(* Properties.                                                             *)

\* The model is complete: every statement that builds it has run.
Built == pc \in {"update", "getConstrs", "getObjective", "optimize",
                 "getJSONSolution", "ObjVal", "x", "print", "print_loop", "done"}

Solved == solveCalls > 0

SelectedItems(pt) == {i \in I : pt[i] = 1}
TotalWeight(S) == Sum(w, S)
TotalValue(S) == Sum(v, S)

\* C1: in the knapsack model as built, every 0/1 assignment of the X[i] that
\* satisfies the constraints, and so the solution the solve reports, selects
\* items of total weight at most b.
C1_WeightWithinCapacity ==
    (nb = "knapsack" /\ Built) =>
        /\ \A pt \in [X -> {0, 1}] :
               Feasible(constrs, pt) => TotalWeight(SelectedItems(pt)) <= b
        /\ Status = OPTIMAL => TotalWeight(SelectedItems(x)) <= b

\* A solved knapsack run where the capacity binds: an item was left out that
\* would not have fitted beside the selected ones.
C1_Witness ==
    /\ nb = "knapsack" /\ pc = "done" /\ Status = OPTIMAL
    /\ \E i \in I : x[i] = 0 /\ TotalWeight(SelectedItems(x)) + w[i] > b

\* C2: on the provided 10-item instance the solve reports objective value
\* 40.09 and selects exactly the items 2, 3, 5, 6, 7 and 9.
C2_ProvidedKnapsackOptimum ==
    (nb = "knapsack" /\ Solved) =>
        /\ Status = OPTIMAL
        /\ ObjVal = 4009
        /\ SelectedItems(x) = {2, 3, 5, 6, 7, 9}
        /\ \A i \in {1, 4, 8, 10} : x[i] = 0

C2_Witness ==
    /\ nb = "knapsack" /\ pc = "done" /\ Status = OPTIMAL
    /\ I = ProvidedI /\ v = ProvidedV /\ w = ProvidedW /\ b = ProvidedB

\* C3: the objective value the knapsack solve reports is at least the total
\* value of every subset of I whose total weight is at most b; on the provided
\* instance it is at least 36.36, the value of the first incumbent.
C3_OptimumDominatesFeasible ==
    (nb = "knapsack" /\ Solved) =>
        /\ Status = OPTIMAL
        /\ \A S \in SUBSET I : TotalWeight(S) <= b => ObjVal >= TotalValue(S)
        /\ (v = ProvidedV /\ w = ProvidedW /\ b = ProvidedB) => ObjVal >= 3636

\* A solved knapsack run with a feasible selection of smaller value than the
\* reported optimum, and a selection the capacity excludes.
C3_Witness ==
    /\ nb = "knapsack" /\ pc = "print" /\ Status = OPTIMAL
    /\ \E S \in SUBSET I : S # {} /\ TotalWeight(S) <= b /\ TotalValue(S) < ObjVal
    /\ \E S \in SUBSET I : TotalWeight(S) > b /\ TotalValue(S) > ObjVal

\* pt selects exactly one task for each resource and exactly one resource for
\* each task.
IsPerfectMatching(pt) ==
    /\ \A i \in M : Cardinality({j \in N : pt[<<i, j>>] = 1}) = 1
    /\ \A j \in N : Cardinality({i \in M : pt[<<i, j>>] = 1}) = 1

\* C4: in the assignment model as built, every 0/1 assignment of the X[i,j]
\* that satisfies the constraints, and so the solution the solve reports, is
\* a perfect matching between M and N.
C4_FeasibleIsMatching ==
    /\ (nb = "assignment" /\ pc = "optimize") =>
           \A pt \in [X -> {0, 1}] : Feasible(constrs, pt) => IsPerfectMatching(pt)
    /\ (nb = "assignment" /\ Status = OPTIMAL) => IsPerfectMatching(x)

\* A solved assignment run with at least two resources.
C4_Witness ==
    /\ nb = "assignment" /\ pc = "done" /\ Status = OPTIMAL
    /\ Cardinality(M) >= 2
    /\ \E i \in M, j \in N : x[<<i, j>>] = 1 /\ i # j

Bijections(A, B) == {f \in [A -> B] : \A p, q \in A : f[p] = f[q] => p = q}
MatchingCost(f) == Sum([i \in M |-> c[<<i, f[i]>>]], M)

\* C5: the objective value the assignment solve reports is the least total
\* cost, over the bijections f from M to N, of the sum of c[i, f(i)].
C5_OptimumIsMinCostMatching ==
    (nb = "assignment" /\ Solved) =>
        /\ Status = OPTIMAL
        /\ ObjVal = Min({MatchingCost(f) : f \in Bijections(M, N)})

\* A solved assignment run where some bijection costs more than the optimum.
C5_Witness ==
    /\ nb = "assignment" /\ pc = "print" /\ Status = OPTIMAL
    /\ \E f \in Bijections(M, N) : MatchingCost(f) > ObjVal
    /\ ObjVal > 0

\* C6: on the seeded 10 x 10 instance the solve reports an objective of about
\* 14.3778 (14.3778 to four decimals) and the matching 1 -> 10, 2 -> 7,
\* 3 -> 5, 4 -> 1, 5 -> 9, 6 -> 4, 7 -> 2, 8 -> 6, 9 -> 3, 10 -> 8.
C6_SeededAssignmentOptimum ==
    (nb = "assignment" /\ Solved) =>
        /\ Status = OPTIMAL
        /\ ObjVal \in 14377750..14377849
        /\ {k \in X : x[k] = 1} =
               {<<1, 10>>, <<2, 7>>, <<3, 5>>, <<4, 1>>, <<5, 9>>,
                <<6, 4>>, <<7, 2>>, <<8, 6>>, <<9, 3>>, <<10, 8>>}

C6_Witness ==
    /\ nb = "assignment" /\ pc = "done" /\ Status = OPTIMAL
    /\ Cardinality(X) = 100 /\ Len(out) = 12

\* The phase a statement belongs to: data, build, solve, print, end.
Stage(p) ==
    CASE p = "data" -> 0
      [] p \in {"model", "vars", "objective", "constr", "constr_task",
                "constr_resource", "update", "getConstrs", "getObjective"} -> 1
      [] p = "optimize" -> 2
      [] p \in {"getJSONSolution", "ObjVal", "x", "print", "print_loop"} -> 3
      [] OTHER -> 4

\* Every variable, the objective and every constraint have been added.
ModelComplete ==
    /\ X # {}
    /\ X = (IF nb = "knapsack" THEN I ELSE N \X M)
    /\ sense # "none"
    /\ DOMAIN objective = X
    /\ Len(constrs) = (IF nb = "knapsack" THEN 1 ELSE Cardinality(M) + Cardinality(N))

\* C7: a run goes data -> build -> solve -> print and never back; the solve is
\* called once, on the complete model; nothing is printed and no variable
\* value is read before the solve has returned.
C7_LinearPipeline ==
    /\ [](pc = "done" => solveCalls = 1)
    /\ [](pc \in {"x", "print_loop"} => solveCalls = 1)
    /\ [][/\ Stage(pc) <= Stage(pc')
          /\ solveCalls' # solveCalls =>
                 solveCalls = 0 /\ solveCalls' = 1 /\ ModelComplete /\ Stage(pc) = 2
          /\ out' # out => solveCalls = 1 /\ Status # 0]_vars

C7_Witness ==
    /\ pc = "done" /\ solveCalls = 1 /\ mode = "together" /\ Len(out) > 2

\* C8: once generated, I, v, w, b, M, N and c are never written again.
C8_InputsImmutable ==
    [][pc # "data" =>
          /\ I' = I /\ v' = v /\ w' = w /\ b' = b
          /\ M' = M /\ N' = N /\ c' = c]_vars

C8_Witness ==
    /\ pc = "done" /\ mode = "steps"
    /\ \/ nb = "knapsack" /\ w = ProvidedW /\ v = ProvidedV
       \/ nb = "assignment" /\ c = ProvidedAssignment.c

\* C9: in the knapsack notebook v and w have exactly the items of I as keys,
\* every value and weight is positive, and b is not negative.
C9_KnapsackInstance ==
    (nb = "knapsack" /\ pc # "data") =>
        /\ DOMAIN v = I /\ DOMAIN w = I
        /\ \A i \in I : v[i] > 0 /\ w[i] > 0
        /\ b >= 0

C9_Witness ==
    /\ nb = "knapsack" /\ pc = "vars" /\ Cardinality(I) = 10 /\ b = ProvidedB

\* C10: in the assignment notebook M and N have the same size and c has an
\* entry for exactly the pairs of M x N.
C10_AssignmentInstance ==
    (nb = "assignment" /\ pc # "data") =>
        /\ Cardinality(M) = Cardinality(N)
        /\ DOMAIN c = M \X N

C10_Witness ==
    /\ nb = "assignment" /\ pc = "vars" /\ Cardinality(DOMAIN c) = 100

\* C11: when the knapsack solve is called the model holds one variable X[i]
\* for every item of I and no other (10 on the provided instance), one
\* constraint, which is sum of w[i]*X[i] <= b, and the objective sum of
\* v[i]*X[i] with sense maximize.  (That the variables are binary is part of
\* the solver's contract: it searches the 0/1 points of X.)
C11_KnapsackModelAtSolve ==
    (nb = "knapsack" /\ pc = "optimize") =>
        /\ X = I
        /\ (I = ProvidedI => Cardinality(X) = 10)
        /\ Len(constrs) = 1
        /\ constrs[1].name = <<"capacity_constraint">>
        /\ constrs[1].rel = "<=" /\ constrs[1].rhs = b
        /\ DOMAIN constrs[1].expr = I
        /\ \A i \in I : constrs[1].expr[i] = w[i]
        /\ DOMAIN objective = I
        /\ \A i \in I : objective[i] = v[i]
        /\ sense = "max"

\* The provided knapsack model, about to be solved.
C11_Witness ==
    /\ nb = "knapsack" /\ pc = "optimize" /\ solveCalls = 0
    /\ Cardinality(X) = 10 /\ b = ProvidedB

\* The constraints of the model in which the variable with key k has a
\* non-zero coefficient.
ConstrsOf(k) == {n \in 1..Len(constrs) :
                    k \in DOMAIN constrs[n].expr /\ constrs[n].expr[k] # 0}

\* Number of non-zero coefficients in the constraints.
Nonzeros == Sum([n \in 1..Len(constrs) |->
                    Cardinality({k \in DOMAIN constrs[n].expr : constrs[n].expr[k] # 0})],
                1..Len(constrs))

\* C12: when the assignment solve is called the model holds |M|*|N| variables
\* (100), |M|+|N| constraints (20), each an equality with right-hand side 1,
\* one named for every task and one named for every resource; every variable
\* X[i,j] has coefficient 1 in exactly two constraints, the one of task j and
\* the one of resource i (200 non-zeros); the objective has sense minimize.
C12_AssignmentModelAtSolve ==
    (nb = "assignment" /\ pc = "optimize") =>
        /\ Cardinality(X) = Cardinality(M) * Cardinality(N)
        /\ Cardinality(X) = 100
        /\ Len(constrs) = Cardinality(M) + Cardinality(N)
        /\ Len(constrs) = 20
        /\ \A n \in 1..Len(constrs) : constrs[n].rel = "=" /\ constrs[n].rhs = 1
        /\ \A j \in N : Cardinality({n \in 1..Len(constrs) : constrs[n].name = <<"task", j>>}) = 1
        /\ \A i \in M : Cardinality({n \in 1..Len(constrs) : constrs[n].name = <<"resource", i>>}) = 1
        /\ \A n \in 1..Len(constrs) :
               constrs[n].name \in {<<"task", j>> : j \in N} \cup {<<"resource", i>> : i \in M}
        /\ \A k \in X :
               /\ Cardinality(ConstrsOf(k)) = 2
               /\ \A n \in ConstrsOf(k) : constrs[n].expr[k] = 1
               /\ {constrs[n].name : n \in ConstrsOf(k)} = {<<"task", k[2]>>, <<"resource", k[1]>>}
        /\ Nonzeros = 200
        /\ DOMAIN objective = X
        /\ sense = "min"

\* The seeded assignment model, about to be solved.
C12_Witness ==
    /\ nb = "assignment" /\ pc = "optimize" /\ solveCalls = 0
    /\ Cardinality(M) = 10 /\ Len(constrs) = 20

\* C13: whatever status the solve returns, there is no second solve call,
\* nothing changes the model, the data or the solver's answer after the solve,
\* the run never goes back to an earlier stage, and the statement that follows
\* the solve does not depend on the status: it is the print step in the
\* consolidated cell (the first solution-reading cell in the cell-by-cell
\* run), reached with the status as the solver returned it.  The only way a
\* solved run stops early is an exception raised on a non-optimal status.
C13_NoErrorHandling ==
    /\ [](solveCalls <= 1)
    /\ [](pc = "error" /\ Solved => Status # OPTIMAL)
    /\ [](mode = "together" /\ Solved => pc \in {"print", "print_loop", "done", "error"})
    /\ [][/\ pc = "optimize" =>
                 /\ pc' = (IF mode = "steps" THEN "getJSONSolution" ELSE "print")
                 /\ Status' \in {OPTIMAL, INFEASIBLE}
          /\ Solved =>
                 /\ solveCalls' = solveCalls
                 /\ Status' = Status /\ x' = x /\ ObjVal' = ObjVal
                 /\ X' = X /\ objective' = objective /\ sense' = sense
                 /\ constrs' = constrs
                 /\ I' = I /\ v' = v /\ w' = w /\ b' = b
                 /\ M' = M /\ N' = N /\ c' = c
                 /\ Stage(pc') >= 3]_vars

\* The consolidated cell printed its header although the solve had returned
\* the status infeasible.
C13_Witness ==
    /\ mode = "together" /\ Status = INFEASIBLE /\ solveCalls = 1
    /\ pc = "print_loop" /\ Len(out) = 2

\* The lines printed after the two header lines.
Printed == SubSeq(out, 3, Len(out))

\* C14: after an optimal assignment solve the print step prints, for every
\* resource i of M, exactly one line 'Resource i -> Task j', and j is the one
\* task with X[i,j] = 1; the printed pairs are exactly the pairs with
\* X[i,j] = 1, and they map M one-to-one onto N.
C14_AssignmentPrint ==
    (nb = "assignment" /\ pc = "done" /\ Status = OPTIMAL) =>
        /\ Len(out) = 2 + Cardinality(M)
        /\ \A n \in DOMAIN Printed : Printed[n][1] = "Resource"
        /\ \A i \in M :
               /\ Cardinality({n \in DOMAIN Printed : Printed[n][2] = i}) = 1
               /\ \E n \in DOMAIN Printed, j \in N :
                      /\ Printed[n] = <<"Resource", i, j>>
                      /\ {t \in N : x[<<i, t>>] = 1} = {j}
        /\ {<<Printed[n][2], Printed[n][3]>> : n \in DOMAIN Printed} = {k \in X : x[k] = 1}
        /\ \A j \in N : Cardinality({n \in DOMAIN Printed : Printed[n][3] = j}) = 1
        /\ \A n \in DOMAIN Printed : Printed[n][2] \in M /\ Printed[n][3] \in N

\* A printed assignment in which a resource did not get the first task, so
\* the inner loop passed an unselected pair before it reached its match.
C14_Witness ==
    /\ nb = "assignment" /\ pc = "done" /\ Status = OPTIMAL
    /\ Cardinality(M) >= 2
    /\ \E n \in DOMAIN Printed : Printed[n][1] = "Resource" /\ Printed[n][3] > 1

\* C15: after an optimal knapsack solve the line 'Item i included' is printed
\* for item i exactly when X[i] = 1, once, and for no item with X[i] = 0;
\* the printed items weigh at most b in total.
C15_KnapsackPrint ==
    (nb = "knapsack" /\ pc = "done" /\ Status = OPTIMAL) =>
        /\ \A n \in DOMAIN Printed : Printed[n][1] = "Item" /\ Printed[n][2] \in I
        /\ \A i \in I :
               Cardinality({n \in DOMAIN Printed : Printed[n] = <<"Item", i>>})
                   = (IF x[i] = 1 THEN 1 ELSE 0)
        /\ \A i \in I : x[i] \in {0, 1}
        /\ TotalWeight({Printed[n][2] : n \in DOMAIN Printed}) <= b
        /\ (I = ProvidedI /\ b = ProvidedB) =>
               Printed = << <<"Item", 2>>, <<"Item", 3>>, <<"Item", 5>>,
                            <<"Item", 6>>, <<"Item", 7>>, <<"Item", 9>> >>

\* A printed knapsack solution with an item included and an item left out.
C15_Witness ==
    /\ nb = "knapsack" /\ pc = "done" /\ Status = OPTIMAL
    /\ \E i, k \in I : x[i] = 1 /\ x[k] = 0
    /\ Len(out) > 2

\* What either notebook is expected to build and to report on its own data,
\* written down without reference to the way it is run.
ExpectedModel ==
    IF nb = "knapsack"
    THEN [X |-> ProvidedI,
          objective |-> [i \in ProvidedI |-> ProvidedV[i]],
          sense |-> "max",
          constrs |-> << [name |-> <<"capacity_constraint">>,
                          expr |-> [i \in ProvidedI |-> ProvidedW[i]],
                          rel |-> "<=", rhs |-> ProvidedB] >>]
    ELSE LET R == 1..ProvidedSIZE
         IN  [X |-> R \X R,
              objective |-> [k \in R \X R |->
                                SeededDraws[(k[1] - 1) * ProvidedSIZE + k[2]]],
              sense |-> "min",
              constrs |->
                  [n \in 1..(2 * ProvidedSIZE) |->
                      IF n <= ProvidedSIZE
                      THEN [name |-> <<"task", n>>,
                            expr |-> [k \in {<<i, n>> : i \in R} |-> 1],
                            rel |-> "=", rhs |-> 1]
                      ELSE [name |-> <<"resource", n - ProvidedSIZE>>,
                            expr |-> [k \in {<<n - ProvidedSIZE, j>> : j \in R} |-> 1],
                            rel |-> "=", rhs |-> 1]]]

ExpectedObjVal == IF nb = "knapsack" THEN 4009 ELSE 14377810

ExpectedOut ==
    << <<"Optimal Assignments">>, <<"--------------------">> >> \o
    (IF nb = "knapsack"
     THEN << <<"Item", 2>>, <<"Item", 3>>, <<"Item", 5>>,
             <<"Item", 6>>, <<"Item", 7>>, <<"Item", 9>> >>
     ELSE << <<"Resource", 1, 10>>, <<"Resource", 2, 7>>, <<"Resource", 3, 5>>,
             <<"Resource", 4, 1>>, <<"Resource", 5, 9>>, <<"Resource", 6, 4>>,
             <<"Resource", 7, 2>>, <<"Resource", 8, 6>>, <<"Resource", 9, 3>>,
             <<"Resource", 10, 8>> >>)

\* C16: the consolidated cell and the cell-by-cell run of a notebook hand the
\* same model to the solver (same variables, objective, sense, constraints),
\* get the same objective value and print the same lines: in either mode they
\* are the ones expected of the notebook.  The runs differ in that the
\* cell-by-cell run has updated the model before the solve (nothing pending)
\* and the consolidated cell has not.
C16_TogetherEqualsSteps ==
    /\ Built =>
           /\ X = ExpectedModel.X
           /\ objective = ExpectedModel.objective
           /\ sense = ExpectedModel.sense
           /\ constrs = ExpectedModel.constrs
    /\ pc = "optimize" => pending = (mode = "together")
    /\ Solved => Status = OPTIMAL /\ ObjVal = ExpectedObjVal
    /\ pc = "done" => out = ExpectedOut

\* The consolidated cell at its end, lines printed.
C16_Witness ==
    /\ mode = "together" /\ pc = "done" /\ solveCalls = 1
    /\ Len(out) > 2 /\ out = ExpectedOut

\* C17: on the provided instances the solve returns status 2; the solution is
\* integral (every value 0 or 1) and violates no constraint, and its objective
\* value is the recorded bound (gap 0); no statement raises, and every run
\* that is not abandoned reaches the print step and ends.
C17_ProvidedRunsFinish ==
    /\ [](Solved =>
             /\ Status = OPTIMAL
             /\ DOMAIN x = X /\ \A k \in X : x[k] \in {0, 1}
             /\ Feasible(constrs, x)
             /\ ObjVal = Eval(objective, x)
             /\ ObjVal = ExpectedObjVal)
    /\ [](pc # "error")
    /\ [](pc = "done" => Len(out) > 2)
    /\ <>(pc \in {"print", "print_loop"})
    /\ <>[](pc = "done")

\* The cell-by-cell run at its end, every cell executed.
C17_Witness ==
    /\ mode = "steps" /\ pc = "done" /\ Status = OPTIMAL
    /\ \A k \in X : x[k] \in {0, 1}

\* C18: in the assignment notebook the variables are keyed over N x M and the
\* objective loop runs i over N and j over M, while c is keyed over M x N and
\* the constraints and the print loop use X[i,j] with i in M and j in N.  No
\* lookup of c[i,j] or X[i,j] fails (no statement raises), and the model built
\* is: minimize the sum over resources i and tasks j of c[i,j]*X[i,j], each
\* task's constraint summing X[i,j] over the resources and each resource's
\* constraint summing X[i,j] over the tasks.
C18_IndexConsistency ==
    nb = "assignment" =>
        /\ pc # "error"
        /\ pc \notin {"data", "model", "vars"} => X = N \X M /\ X = M \X N
        /\ DOMAIN objective \subseteq DOMAIN c /\ DOMAIN expr \subseteq X
        /\ Built =>
               /\ DOMAIN c = M \X N
               /\ objective = [k \in M \X N |-> c[k]]
               /\ sense = "min"
               /\ \A j \in N : \E n \in 1..Len(constrs) :
                      /\ constrs[n].name = <<"task", j>>
                      /\ constrs[n].expr = [k \in {<<i, j>> : i \in M} |-> 1]
               /\ \A i \in M : \E n \in 1..Len(constrs) :
                      /\ constrs[n].name = <<"resource", i>>
                      /\ constrs[n].expr = [k \in {<<i, j>> : j \in N} |-> 1]
        /\ pc = "done" =>
               \A n \in DOMAIN Printed :
                   <<Printed[n][2], Printed[n][3]>> \in X \cap (M \X N)

\* An assignment run at its end on a cost matrix that is not symmetric, so
\* that swapping the roles of the two indices would change the model.
C18_Witness ==
    /\ nb = "assignment" /\ pc = "done"
    /\ \E i \in M, j \in N : c[<<i, j>>] # c[<<j, i>>]

\* C19: the objective value reported is the one of the assignment reported:
\* in the knapsack notebook the sum of v[i] over the items with X[i] = 1, in
\* the assignment notebook the sum of c[i,j] over the pairs with X[i,j] = 1.
C19_ObjValMatchesSolution ==
    Status = OPTIMAL =>
        IF nb = "knapsack"
        THEN ObjVal = Sum(v, {i \in I : x[i] = 1})
        ELSE ObjVal = Sum(c, {k \in M \X N : x[k] = 1})

\* A solved assignment run with a positive objective value.
C19_Witness ==
    /\ nb = "assignment" /\ pc = "done" /\ Status = OPTIMAL
    /\ ObjVal > 0 /\ Cardinality({k \in M \X N : x[k] = 1}) >= 2

\* C20: on a knapsack instance with every weight positive and b not
\* negative, the empty selection satisfies the capacity constraint and no
\* selection is worth more than the sum of all v[i]; so the solve returns
\* neither infeasible nor unbounded, and the print step, which tests no
\* status, reads a solution that exists: no statement raises.
C20_KnapsackSolvable ==
    (nb = "knapsack" /\ pc # "data" /\ b >= 0 /\ \A i \in I : w[i] > 0) =>
        /\ pc # "error"
        /\ Built =>
               /\ Feasible(constrs, [i \in X |-> 0])
               /\ \A pt \in [X -> {0, 1}] : Eval(objective, pt) <= Sum(v, I)
        /\ Solved =>
               /\ Status = OPTIMAL
               /\ DOMAIN x = X
               /\ ObjVal >= 0 /\ ObjVal <= Sum(v, I)
        /\ pc = "done" => Len(out) >= 2

\* A finished run on a valid instance in which no item fits: the solution is
\* the empty selection.
C20_Witness ==
    /\ nb = "knapsack" /\ pc = "done" /\ Status = OPTIMAL
    /\ b >= 0 /\ \A i \in I : w[i] > b /\ x[i] = 0

\* C21: the assignment data cell seeds the generator with 0 immediately
\* before it draws the costs, so every run of it, cell by cell or in the
\* consolidated cell, first or repeated, leaves the generator 100 draws into
\* the stream of seed 0 and produces the same cost map c, the one of the
\* recorded stream; and every run then gets the same objective value and
\* prints the same matching as each earlier run in the kernel.
C21_SeededRunsAgree ==
    (nb = "assignment" /\ pc # "data") =>
        /\ rng = [seed |-> 0, pos |-> ProvidedSIZE * ProvidedSIZE]
        /\ c = ProvidedAssignment.c
        /\ \A n \in DOMAIN earlier :
               /\ c = earlier[n].c
               /\ Solved => ObjVal = earlier[n].ObjVal
               /\ pc = "done" => out = earlier[n].out

\* The consolidated cell has finished after a cell-by-cell run in the same
\* kernel: same costs, same objective value, same printed matching.
C21_Witness ==
    /\ nb = "assignment" /\ pc = "done" /\ mode = "together"
    /\ Len(earlier) = 1 /\ earlier[1].mode = "steps"
    /\ rng.seed = 0
    /\ c = earlier[1].c /\ DOMAIN c = M \X N /\ Cardinality(M) = ProvidedSIZE
    /\ solveCalls = 1 /\ ObjVal = earlier[1].ObjVal /\ ObjVal = ExpectedObjVal
    /\ Len(out) = 2 + ProvidedSIZE /\ out = earlier[1].out

====
